---- MODULE Spec2Model ----
(***************************************************************************)
(* Model of src/app/app.py: a Flask service with a metrics interceptor     *)
(* (start_timer / record_metrics), the /data file reader with its path     *)
(* containment check, the /compute doubler and the /error fault injector.  *)
(*                                                                         *)
(* Strings that the code inspects character by character (paths) are       *)
(* sequences of one-character strings, so that os.path.join, normpath and  *)
(* str.startswith are computed as the library computes them.               *)
(***************************************************************************)
EXTENDS Integers, Sequences, FiniteSets, TLC

\* Bounds of the model.
NSeq == 1
NReq == 2
FloatMax == 4

ReqIds == 1..(IF NSeq > NReq THEN NSeq ELSE NReq)

(***************************************************************************)
(* JSON values as Python sees them after request.get_json().               *)
(*   t : Python type of the value, n : numeric value, p : string value     *)
(* A float is finite for |n| <= FloatMax; Inf / -Inf are the two values    *)
(* beyond (IEEE-754 doubles, with the largest finite double scaled down).  *)
(***************************************************************************)
Inf == FloatMax + 1

JV(t, n, p) == [t |-> t, n |-> n, p |-> p]
JInt(n) == JV("int", n, <<>>)
JFloat(n) == JV("float", n, <<>>)
JBool(b) == JV("bool", IF b THEN 1 ELSE 0, <<>>)
JStr(p) == JV("str", 0, p)
JNull == JV("NoneType", 0, <<>>)
JList == JV("list", 0, <<>>)

\* ---------------------------------------------------------------- paths --
base_dir == <<"/", "t", "m", "p", "/">>

StartsWith(s, pre) ==
  /\ Len(s) >= Len(pre)
  /\ SubSeq(s, 1, Len(pre)) = pre

IsAbs(p) == StartsWith(p, <<"/">>)

\* posixpath.join(a, b) for two components
Join(a, b) ==
  IF IsAbs(b) THEN b
  ELSE IF a = <<>> \/ a[Len(a)] = "/" THEN a \o b
  ELSE a \o <<"/">> \o b

RECURSIVE SplitFrom(_, _, _)
SplitFrom(p, i, cur) ==
  IF i > Len(p) THEN <<cur>>
  ELSE IF p[i] = "/" THEN <<cur>> \o SplitFrom(p, i + 1, <<>>)
  ELSE SplitFrom(p, i + 1, Append(cur, p[i]))

\* str.split('/')
Split(p) == SplitFrom(p, 1, <<>>)

\* posixpath.normpath: 2 for exactly two leading slashes, else 1 or 0
InitialSlashes(p) ==
  IF ~ StartsWith(p, <<"/">>) THEN 0
  ELSE IF StartsWith(p, <<"/", "/">>) /\ ~ StartsWith(p, <<"/", "/", "/">>) THEN 2
  ELSE 1

RECURSIVE NormComps(_, _, _, _)
NormComps(comps, i, acc, init) ==
  IF i > Len(comps) THEN acc
  ELSE LET c == comps[i] IN
    IF c = <<>> \/ c = <<".">> THEN NormComps(comps, i + 1, acc, init)
    ELSE IF \/ c # <<".", ".">>
            \/ (init = 0 /\ acc = <<>>)
            \/ (acc # <<>> /\ acc[Len(acc)] = <<".", ".">>)
         THEN NormComps(comps, i + 1, Append(acc, c), init)
    ELSE IF acc # <<>> THEN NormComps(comps, i + 1, SubSeq(acc, 1, Len(acc) - 1), init)
    ELSE NormComps(comps, i + 1, acc, init)

RECURSIVE JoinSlash(_)
JoinSlash(comps) ==
  IF comps = <<>> THEN <<>>
  ELSE IF Len(comps) = 1 THEN comps[1]
  ELSE comps[1] \o <<"/">> \o JoinSlash(Tail(comps))

NormPath(p) ==
  IF p = <<>> THEN <<".">>
  ELSE LET init == InitialSlashes(p)
           comps == NormComps(Split(p), 1, <<>>, init)
           lead == IF init = 2 THEN <<"/", "/">> ELSE IF init = 1 THEN <<"/">> ELSE <<>>
           full == lead \o JoinSlash(comps)
       IN IF full = <<>> THEN <<".">> ELSE full

\* os.path.abspath of a path that is already absolute (base_dir is absolute,
\* and join returns either base_dir + file_path or an absolute file_path)
AbsPath(p) == NormPath(p)

\* safe_path of the /data handler
SafePath(file_path) == AbsPath(Join(base_dir, file_path))

PrefixOk(safe_path) == StartsWith(safe_path, AbsPath(base_dir))

\* ---------------------------------------------------------- file system --
P_a == <<"/", "t", "m", "p", "/", "a">>
P_d == <<"/", "t", "m", "p", "/", "d">>
P_u == <<"/", "t", "m", "p", "/", "u">>
P_sib == <<"/", "t", "m", "p", "X", "/", "s">>
P_etc == <<"/", "e", "t", "c", "/", "p">>

FsPaths == {P_a, P_d, P_u, P_sib, P_etc}

File(kind, content) == [kind |-> kind, content |-> content]

InitFs ==
  [p \in FsPaths |->
     IF p = P_d THEN File("dir", "")
     ELSE IF p = P_u THEN File("file", "c3")
     ELSE IF p = P_a THEN File("file", "c1")
     ELSE File("file", "secret")]

\* Files the service's user may not read (or whose bytes do not decode)
Unreadable == {P_u}

\* os.path.isfile
IsFile(f, p) == p \in DOMAIN f /\ f[p].kind = "file"

\* open(p, 'r') followed by read(): ok is FALSE when either raises
OpenRead(f, p) ==
  IF p \in DOMAIN f /\ f[p].kind = "file" /\ p \notin Unreadable
  THEN [ok |-> TRUE, content |-> f[p].content]
  ELSE [ok |-> FALSE, content |-> ""]

\* ------------------------------------------------------------- requests --
\* A parsed request body: k is the Python type get_json() returns ("invalid"
\* when the body is not JSON and get_json raises BadRequest); keys are the
\* strings for which `key in data` is true (dict keys, list items, substrings
\* of a str), "other" standing for any content that is not a field name;
\* val is the value of the field the handler reads, or the scalar itself.
Body(k, keys, val) == [k |-> k, keys |-> keys, val |-> val]
NoBody == Body("none", {}, JNull)
Request(method, path, body) == [method |-> method, path |-> path, body |-> body]

\* `not data` is false
Truthy(b) ==
  CASE b.k \in {"dict", "list", "str"} -> b.keys # {}
    [] b.k \in {"int", "bool"} -> b.val.n # 0
    [] OTHER -> FALSE

\* `key in data` raises TypeError for these
NotIterable(b) == b.k \in {"int", "bool"}

\* data[key] raises TypeError for these (indices must be integers)
NotSubscriptableByStr(b) == b.k \in {"list", "str"}

Resp(status, k, num, txt) == [status |-> status, k |-> k, num |-> num, txt |-> txt]
NoResp == Resp(0, "none", JNull, "")

\* What a view function does: return a response, increment ERROR_COUNT for
\* `label` and return an error response, raise (Flask turns the exception
\* into the response of that status), or go on to open the file.
Return(resp) == [next |-> "obs_rd", resp |-> resp, label |-> "none"]
Reject(status, label, msg) ==
  [next |-> "err_rd", resp |-> Resp(status, "error", JNull, msg), label |-> label]
Raise(status) == [next |-> "obs_rd", resp |-> Resp(status, "exception", JNull, ""), label |-> "none"]
GoOpen == [next |-> "data_open", resp |-> NoResp, label |-> "none"]

\* ---------------------------------------------------------------- /data --
DataView(b, f) ==
  IF b.k = "invalid" THEN Raise(400)
  ELSE IF ~ Truthy(b) THEN Reject(400, "InvalidInput", "Invalid input, 'file_path' required")
  ELSE IF NotIterable(b) THEN Raise(500)
  ELSE IF "file_path" \notin b.keys
    THEN Reject(400, "InvalidInput", "Invalid input, 'file_path' required")
  ELSE IF NotSubscriptableByStr(b) THEN Raise(500)
  ELSE IF b.val.t # "str" THEN Raise(500)
  ELSE IF ~ PrefixOk(SafePath(b.val.p))
    THEN Reject(403, "UnauthorizedAccess", "Unauthorized file path")
  ELSE IF ~ IsFile(f, SafePath(b.val.p))
    THEN Reject(404, "FileNotFound", "File not found")
  ELSE GoOpen

\* DataRead without the except clause: the exception escapes the view
DataReadUncaught(b, f) ==
  LET got == OpenRead(f, SafePath(b.val.p)) IN
  IF got.ok THEN Return(Resp(200, "file_content", JNull, got.content))
  ELSE Raise(500)

DataRead(b, f) ==
  LET got == OpenRead(f, SafePath(b.val.p)) IN
  IF got.ok THEN Return(Resp(200, "file_content", JNull, got.content))
  ELSE Reject(500, "FileReadError", "Error reading file")

\* ------------------------------------------------------------- /compute --
\* isinstance(x, (int, float)); bool is a subclass of int
IsIntOrFloat(v) == v.t \in {"int", "float", "bool"}

\* IsNegative that rejects negative integers only
IsNegativeInt(v) == v.t = "int" /\ v.n < 0

IsNegative(v) == v.n < 0

\* x * 2: exact on int (and on bool, giving an int); a float product beyond
\* the largest finite float is inf
Mul2(v) ==
  IF v.t = "float"
  THEN IF 2 * v.n > FloatMax THEN JFloat(Inf)
       ELSE IF 2 * v.n < - FloatMax THEN JFloat(- Inf)
       ELSE JFloat(2 * v.n)
  ELSE JInt(2 * v.n)

ComputeView(b) ==
  IF b.k = "invalid" THEN Raise(400)
  ELSE IF ~ Truthy(b) THEN Reject(400, "InvalidInput", "Invalid input, 'number' required")
  ELSE IF NotIterable(b) THEN Raise(500)
  ELSE IF "number" \notin b.keys
    THEN Reject(400, "InvalidInput", "Invalid input, 'number' required")
  ELSE IF NotSubscriptableByStr(b) THEN Raise(500)
  ELSE IF ~ IsIntOrFloat(b.val)
    THEN Reject(400, "NonNumericInput", "'number' must be numeric")
  ELSE IF IsNegative(b.val)
    THEN Reject(400, "NegativeNumber", "Negative numbers are not allowed")
  ELSE Return(Resp(200, "result", Mul2(b.val), ""))

\* --------------------------------------------------------------- /error --
ErrorView(choice) ==
  IF choice THEN Reject(500, "RandomError", "A random error occurred!")
  ELSE Return(Resp(200, "status", JNull, "success"))

\* -------------------------------------------------------------- routing --
Routes == {"/metrics", "/health", "/info", "/data", "/error", "/compute"}
RouteMethod(path) == IF path \in {"/data", "/compute"} THEN "POST" ELSE "GET"
Routed(q, path) == q.path = path /\ q.method = RouteMethod(path)

\* ------------------------------------------------------------- metrics ---
Methods == {"GET", "POST"}
Paths == Routes \cup {"/nope"}
StatusSeq == <<200, 400, 403, 404, 405, 500>>
Statuses == {StatusSeq[i] : i \in DOMAIN StatusSeq}
ErrTypes == {"InvalidInput", "UnauthorizedAccess", "FileNotFound", "FileReadError",
             "RandomError", "NonNumericInput", "NegativeNumber"}
ErrKeys == {"/data", "/compute", "/error"} \X ErrTypes
CountKeys == Methods \X Paths \X Statuses

\* LockFree of a value that has no mutex
NoMutex(held, key) == TRUE

\* prometheus_client keeps every labelled value behind its own mutex:
\* inc() and observe() take it, read the value, add, store, release.
LockFree(held, key) == key \notin held

\* --------------------------------------------------------------- inputs --
FilePaths ==
  { <<"a">>, <<"d">>, <<"m">>, <<"u">>, <<>>,
    <<"d", "/", ".", ".", "/", "a">>,
    <<".", ".", "/", "e", "t", "c", "/", "p">>,
    <<"/", "e", "t", "c", "/", "p">>,
    <<".", ".", "/", "t", "m", "p", "X", "/", "s">>,
    <<".", ".", "/", "t", "m", "p", "X", "/", "m">> }

\* Bodies that do not depend on the field's value, for the field `key`
ShapeBodies(key) ==
  { Body("invalid", {}, JNull), Body("NoneType", {}, JNull),
    Body("dict", {}, JNull), Body("dict", {"other"}, JNull),
    Body("list", {key}, JNull), Body("str", {key}, JNull),
    Body("int", {}, JInt(5)), Body("int", {}, JInt(0)) }

DataBodies ==
  ShapeBodies("file_path")
    \cup { Body("dict", {"file_path"}, JStr(fp)) : fp \in FilePaths }
    \cup { Body("dict", {"file_path"}, JInt(5)) }

Numbers ==
  { JInt(-3), JInt(0), JInt(21), JFloat(-1), JFloat(1), JFloat(FloatMax), JFloat(Inf) }

NonNumbers == { JStr(<<"5">>), JBool(TRUE), JBool(FALSE), JNull, JList }

ComputeBodies ==
  ShapeBodies("number")
    \cup { Body("dict", {"number"}, v) : v \in Numbers \cup NonNumbers }

Inputs ==
  { Request("POST", "/data", b) : b \in DataBodies }
    \cup { Request("POST", "/compute", b) : b \in ComputeBodies }
    \cup { Request("GET", path, NoBody) : path \in Paths }

ConcInputs ==
  { Request("POST", "/data", Body("dict", {"file_path"}, JStr(<<"a">>))),
    Request("POST", "/compute", Body("dict", {"number"}, JInt(-3))),
    Request("GET", "/error", NoBody),
    Request("GET", "/nope", NoBody) }

\* ---------------------------------------------------------------- state --
VARIABLES
  pc,               \* where each request is
  req,              \* the request (flask.request)
  resp,             \* the response the view function (or Flask) produced
  label,            \* error_type of the branch the view function took
  tmp,              \* value read inside inc() / observe()
  out,              \* the response record_metrics returned
  fs,               \* the file system
  ERROR_COUNT, REQUEST_LATENCY, REQUEST_COUNT,
  errLock, latLock, cntLock   \* mutexes held, per labelled value

vars == <<pc, req, resp, label, tmp, out, fs, ERROR_COUNT, REQUEST_LATENCY,
          REQUEST_COUNT, errLock, latLock, cntLock>>

metricVars == <<ERROR_COUNT, REQUEST_LATENCY, REQUEST_COUNT, errLock, latLock, cntLock>>

Init ==
  /\ pc = [r \in ReqIds |-> "idle"]
  /\ req = [r \in ReqIds |-> Request("GET", "/health", NoBody)]
  /\ resp = [r \in ReqIds |-> NoResp]
  /\ label = [r \in ReqIds |-> "none"]
  /\ tmp = [r \in ReqIds |-> 0]
  /\ out = [r \in ReqIds |-> NoResp]
  /\ fs = InitFs
  /\ ERROR_COUNT = [k \in ErrKeys |-> 0]
  /\ REQUEST_LATENCY = [p \in Paths |-> 0]
  /\ REQUEST_COUNT = [k \in CountKeys |-> 0]
  /\ errLock = {}
  /\ latLock = {}
  /\ cntLock = {}

\* a request arrives; before_request runs start_timer
start_timer(r, In) ==
  /\ pc[r] = "idle"
  /\ \E q \in In : req' = [req EXCEPT ![r] = q]
  /\ pc' = [pc EXCEPT ![r] = "view"]
  /\ UNCHANGED <<resp, label, tmp, out, fs, metricVars>>

\* the view function's outcome o becomes the request's next position
Apply(r, o) ==
  /\ pc' = [pc EXCEPT ![r] = o.next]
  /\ resp' = [resp EXCEPT ![r] = o.resp]
  /\ label' = [label EXCEPT ![r] = o.label]
  /\ UNCHANGED <<req, tmp, out, fs, metricVars>>

NotFound(r) ==
  /\ pc[r] = "view"
  /\ req[r].path \notin Routes
  /\ Apply(r, Raise(404))

MethodNotAllowed(r) ==
  /\ pc[r] = "view"
  /\ req[r].path \in Routes
  /\ req[r].method # RouteMethod(req[r].path)
  /\ Apply(r, Raise(405))

metrics(r) ==
  /\ pc[r] = "view"
  /\ Routed(req[r], "/metrics")
  /\ Apply(r, Return(Resp(200, "exposition", JNull, "")))

health_check(r) ==
  /\ pc[r] = "view"
  /\ Routed(req[r], "/health")
  /\ Apply(r, Return(Resp(200, "status", JNull, "healthy")))

info(r) ==
  /\ pc[r] = "view"
  /\ Routed(req[r], "/info")
  /\ Apply(r, Return(Resp(200, "html", JNull, "Application Info")))

\* /data up to and including os.path.isfile
data(r) ==
  /\ pc[r] = "view"
  /\ Routed(req[r], "/data")
  /\ Apply(r, DataView(req[r].body, fs))

\* /data: open and read
data_open(r) ==
  /\ pc[r] = "data_open"
  /\ Apply(r, DataRead(req[r].body, fs))

error(r) ==
  /\ pc[r] = "view"
  /\ Routed(req[r], "/error")
  /\ \E choice \in BOOLEAN : Apply(r, ErrorView(choice))

compute(r) ==
  /\ pc[r] = "view"
  /\ Routed(req[r], "/compute")
  /\ Apply(r, ComputeView(req[r].body))

ErrKey(r) == <<req[r].path, label[r]>>

\* ERROR_COUNT.labels(endpoint, error_type).inc(): take the mutex and read
ERROR_COUNT_read(r) ==
  /\ pc[r] = "err_rd"
  /\ LockFree(errLock, ErrKey(r))
  /\ errLock' = errLock \cup {ErrKey(r)}
  /\ tmp' = [tmp EXCEPT ![r] = ERROR_COUNT[ErrKey(r)]]
  /\ pc' = [pc EXCEPT ![r] = "err_wr"]
  /\ UNCHANGED <<req, resp, label, out, fs, ERROR_COUNT, REQUEST_LATENCY,
                 REQUEST_COUNT, latLock, cntLock>>

\* ... store value + 1 and release; the view function then returns
ERROR_COUNT_inc(r) ==
  /\ pc[r] = "err_wr"
  /\ ERROR_COUNT' = [ERROR_COUNT EXCEPT ![ErrKey(r)] = tmp[r] + 1]
  /\ errLock' = errLock \ {ErrKey(r)}
  /\ tmp' = [tmp EXCEPT ![r] = 0]
  /\ pc' = [pc EXCEPT ![r] = "obs_rd"]
  /\ UNCHANGED <<req, resp, label, out, fs, REQUEST_LATENCY, REQUEST_COUNT,
                 latLock, cntLock>>

\* LatKey that observes every latency under one label
LatKeyFixed(r) == "/metrics"

\* record_metrics: REQUEST_LATENCY.labels(request.path).observe(...)
LatKey(r) == req[r].path

observe_read(r) ==
  /\ pc[r] = "obs_rd"
  /\ LockFree(latLock, LatKey(r))
  /\ latLock' = latLock \cup {LatKey(r)}
  /\ tmp' = [tmp EXCEPT ![r] = REQUEST_LATENCY[LatKey(r)]]
  /\ pc' = [pc EXCEPT ![r] = "obs_wr"]
  /\ UNCHANGED <<req, resp, label, out, fs, ERROR_COUNT, REQUEST_LATENCY,
                 REQUEST_COUNT, errLock, cntLock>>

observe(r) ==
  /\ pc[r] = "obs_wr"
  /\ REQUEST_LATENCY' = [REQUEST_LATENCY EXCEPT ![LatKey(r)] = tmp[r] + 1]
  /\ latLock' = latLock \ {LatKey(r)}
  /\ tmp' = [tmp EXCEPT ![r] = 0]
  /\ pc' = [pc EXCEPT ![r] = "cnt_rd"]
  /\ UNCHANGED <<req, resp, label, out, fs, ERROR_COUNT, REQUEST_COUNT,
                 errLock, cntLock>>

\* CountKey that labels every request as a success
CountKeyOk(r) == <<req[r].method, req[r].path, 200>>

\* record_metrics: REQUEST_COUNT.labels(method, path, status_code).inc()
CountKey(r) == <<req[r].method, req[r].path, resp[r].status>>

REQUEST_COUNT_read(r) ==
  /\ pc[r] = "cnt_rd"
  /\ LockFree(cntLock, CountKey(r))
  /\ cntLock' = cntLock \cup {CountKey(r)}
  /\ tmp' = [tmp EXCEPT ![r] = REQUEST_COUNT[CountKey(r)]]
  /\ pc' = [pc EXCEPT ![r] = "cnt_wr"]
  /\ UNCHANGED <<req, resp, label, out, fs, ERROR_COUNT, REQUEST_LATENCY,
                 REQUEST_COUNT, errLock, latLock>>

\* what record_metrics returns
Returned(response) == response

\* ... store, release, and `return response`
record_metrics(r) ==
  /\ pc[r] = "cnt_wr"
  /\ REQUEST_COUNT' = [REQUEST_COUNT EXCEPT ![CountKey(r)] = tmp[r] + 1]
  /\ cntLock' = cntLock \ {CountKey(r)}
  /\ tmp' = [tmp EXCEPT ![r] = 0]
  /\ out' = [out EXCEPT ![r] = Returned(resp[r])]
  /\ pc' = [pc EXCEPT ![r] = "done"]
  /\ UNCHANGED <<req, resp, label, fs, ERROR_COUNT, REQUEST_LATENCY,
                 errLock, latLock>>

\* Another process removes a file of the base directory ...
EnvDelete ==
  /\ fs[P_a].kind = "file"
  /\ fs' = [fs EXCEPT ![P_a] = File("none", "")]
  /\ UNCHANGED <<pc, req, resp, label, tmp, out, metricVars>>

\* ... or replaces its content
EnvReplace ==
  /\ fs[P_a] = File("file", "c1")
  /\ fs' = [fs EXCEPT ![P_a] = File("file", "c2")]
  /\ UNCHANGED <<pc, req, resp, label, tmp, out, metricVars>>

\* the view functions the claims are about, and Flask's 404
Handle(r) ==
  \/ NotFound(r)
  \/ data(r)
  \/ data_open(r)
  \/ error(r)
  \/ compute(r)

Other(r) ==
  \/ MethodNotAllowed(r)
  \/ metrics(r)
  \/ health_check(r)
  \/ info(r)

\* the counters' steps: ERROR_COUNT inside the view, then after_request
Record(r) ==
  \/ ERROR_COUNT_read(r)
  \/ ERROR_COUNT_inc(r)
  \/ observe_read(r)
  \/ observe(r)
  \/ REQUEST_COUNT_read(r)
  \/ record_metrics(r)

\* Requests with every kind of input
Next ==
  \/ \E r \in 1..NSeq : start_timer(r, Inputs) \/ Handle(r) \/ Other(r) \/ Record(r)
  \/ EnvDelete
  \/ EnvReplace

Spec == Init /\ [][Next]_vars

\* Simultaneous requests, one input per view function
NextConc ==
  \/ \E r \in 1..NReq : start_timer(r, ConcInputs) \/ Handle(r) \/ Record(r)
  \/ EnvDelete
  \/ EnvReplace

SpecConc == Init /\ [][NextConc]_vars

\* ======================================================== properties =====
Responded == {"obs_rd", "obs_wr", "cnt_rd", "cnt_wr", "done"}
InRecord == {r \in ReqIds : pc[r] \in {"obs_rd", "obs_wr", "cnt_rd", "cnt_wr"}}
InFlight == {r \in ReqIds : pc[r] \notin {"idle", "done"}}
Done == {r \in ReqIds : pc[r] = "done"}

\* the view function of `path` was entered for request r
Entered(r, path) == pc[r] # "idle" /\ req[r].method = RouteMethod(path) /\ req[r].path = path

\* r is a /data request whose JSON object has a string file_path
HasFilePath(r) ==
  /\ Entered(r, "/data")
  /\ req[r].body.k = "dict"
  /\ "file_path" \in req[r].body.keys
  /\ req[r].body.val.t = "str"

\* r is a /compute request whose JSON object has a 'number' field
HasNumber(r) ==
  /\ Entered(r, "/compute")
  /\ req[r].body.k = "dict"
  /\ "number" \in req[r].body.keys

\* a JSON number (true and false are not)
JsonNumber(v) == v.t \in {"int", "float"}

\* the path lies in the base directory: it is the directory or below it
Inside(p) ==
  \/ p = <<"/", "t", "m", "p">>
  \/ StartsWith(p, <<"/", "t", "m", "p", "/">>)

Normalised(r) == NormPath(Join(<<"/", "t", "m", "p", "/">>, req[r].body.val.p))

\* REQUEST_COUNT summed over the statuses from the i-th on, then over all
\* methods and statuses of a path, then over everything
RECURSIVE SumStatus(_, _, _)
SumStatus(m, p, i) ==
  IF i > Len(StatusSeq) THEN 0
  ELSE REQUEST_COUNT[<<m, p, StatusSeq[i]>>] + SumStatus(m, p, i + 1)

SumPath(p) == SumStatus("GET", p, 1) + SumStatus("POST", p, 1)

SumAll ==
  SumPath("/metrics") + SumPath("/health") + SumPath("/info") + SumPath("/data")
    + SumPath("/error") + SumPath("/compute") + SumPath("/nope")

\* C1: a /data request whose file_path, joined to /tmp/ and normalised, is
\* not inside the base directory is answered 403 and never opens a file.
C1_OutsideIsForbidden ==
  \A r \in ReqIds :
    (HasFilePath(r) /\ ~ Inside(Normalised(r))) =>
      /\ pc[r] # "data_open"
      /\ (pc[r] \in Responded => resp[r].status = 403 /\ resp[r].k = "error")

\* C2: every error response of /data, /compute and /error comes with one
\* increment of ERROR_COUNT for its endpoint and classification.
C2_EveryErrorCounted ==
  \A r \in ReqIds :
    ( /\ \E path \in {"/data", "/compute", "/error"} : Entered(r, path)
      /\ pc[r] \in Responded
      /\ resp[r].status >= 400 ) =>
      /\ label[r] \in ErrTypes
      /\ ERROR_COUNT[<<req[r].path, label[r]>>] >= 1

\* C3: a 'number' that is not a JSON number is answered 400 NonNumericInput,
\* counted under that label, and nothing is computed.
C3_NonNumericRejected ==
  \A r \in ReqIds :
    (HasNumber(r) /\ ~ JsonNumber(req[r].body.val) /\ pc[r] \in Responded) =>
      /\ resp[r].status = 400
      /\ resp[r].k = "error"
      /\ label[r] = "NonNumericInput"
      /\ ERROR_COUNT[<<"/compute", "NonNumericInput">>] >= 1

\* res is exactly twice v
ExactlyTwice(v, res) ==
  /\ res.t = v.t
  /\ IF v.t = "float" /\ v.n = Inf THEN res.n = Inf
     ELSE /\ res.n = 2 * v.n
          /\ v.t = "float" => 2 * v.n <= FloatMax

\* C4: a numeric 'number' n >= 0 is answered 200 with result exactly 2*n and
\* no ERROR_COUNT increment.
C4_DoublesExactly ==
  \A r \in ReqIds :
    ( /\ HasNumber(r)
      /\ JsonNumber(req[r].body.val)
      /\ req[r].body.val.n >= 0
      /\ pc[r] # "view" ) =>
      /\ pc[r] \in Responded
      /\ resp[r].status = 200
      /\ resp[r].k = "result"
      /\ ExactlyTwice(req[r].body.val, resp[r].num)
      /\ label[r] = "none"

\* C5: once all requests have completed, REQUEST_COUNT sums to the number of
\* requests and every ERROR_COUNT label counts the requests of its branch.
C5_NoLostUpdate ==
  InFlight = {} =>
    /\ SumAll = Cardinality(Done)
    /\ \A k \in ErrKeys :
         ERROR_COUNT[k] = Cardinality({r \in Done : <<req[r].path, label[r]>> = k})

\* C5 witness: all requests are done and at least two of them incremented the
\* same ERROR_COUNT value and the same REQUEST_COUNT value.
C5_Witness ==
  /\ Cardinality(Done) >= 2
  /\ InFlight = {}
  /\ \E k \in ErrKeys : ERROR_COUNT[k] >= 2
  /\ \E k \in CountKeys : REQUEST_COUNT[k] >= 2

\* C6 as claimed: a request that found its (readable) file in the base
\* directory at the existence check is answered 200 with file_content,
\* whatever happens to the file before the open.
C6_AlwaysServed ==
  [][\A r \in ReqIds :
       ( /\ pc[r] = "data_open"
         /\ pc'[r] # "data_open"
         /\ Inside(Normalised(r))
         /\ Normalised(r) \notin Unreadable ) =>
         resp'[r].status = 200 /\ resp'[r].k = "file_content"]_vars

\* C6 amended: the open decides. If the path still names a readable regular
\* file when it is opened the answer is 200 with the content the file has
\* then; otherwise it is 500, on the way to count FileReadError.
C6_ServedIfStillThere ==
  [][\A r \in ReqIds :
       (pc[r] = "data_open" /\ pc'[r] # "data_open") =>
         IF /\ Normalised(r) \in DOMAIN fs
            /\ fs[Normalised(r)].kind = "file"
            /\ Normalised(r) \notin Unreadable
         THEN /\ resp'[r] = Resp(200, "file_content", JNull, fs[Normalised(r)].content)
              /\ label'[r] = "none"
              /\ pc'[r] = "obs_rd"
         ELSE /\ resp'[r].status = 500
              /\ resp'[r].k = "error"
              /\ label'[r] = "FileReadError"
              /\ pc'[r] = "err_rd"]_vars

\* C6 witness: a request for the readable file /tmp/a was answered 500 after
\* the file was deleted between the existence check and the open, and
\* ERROR_COUNT shows it.
C6_Witness ==
  \E r \in ReqIds :
    /\ HasFilePath(r)
    /\ Normalised(r) = P_a
    /\ pc[r] = "done"
    /\ resp[r].status = 500
    /\ ERROR_COUNT[<<"/data", "FileReadError">>] = 1

\* C7: record_metrics runs once per response: REQUEST_COUNT of (method, path,
\* status) is the number of requests answered with it (and the counter holds
\* nothing else), REQUEST_LATENCY of a path the number of requests observed
\* under it, and the response leaves unchanged.
C7_RecordedOnce ==
  /\ \A r \in Done :
       REQUEST_COUNT[<<req[r].method, req[r].path, resp[r].status>>] =
         Cardinality({q \in Done : /\ req[q].method = req[r].method
                                   /\ req[q].path = req[r].path
                                   /\ resp[q].status = resp[r].status})
  /\ SumAll = Cardinality(Done)
  /\ \A p \in Paths :
       REQUEST_LATENCY[p] =
         Cardinality({r \in ReqIds : pc[r] \in {"cnt_rd", "cnt_wr", "done"} /\ req[r].path = p})
  /\ \A r \in ReqIds :
       out[r] = IF pc[r] = "done" THEN resp[r] ELSE NoResp

\* C7 witness: a request that failed outside any view function (no route, or
\* an exception Flask turned into a response) has been recorded.
C7_Witness ==
  \E r \in Done :
    /\ resp[r].k = "exception"
    /\ resp[r].status \in {404, 500}
    /\ REQUEST_COUNT[<<req[r].method, req[r].path, resp[r].status>>] = 1
    /\ REQUEST_LATENCY[req[r].path] = 1
    /\ out[r].status = resp[r].status

\* C8: a numeric 'number' n < 0 is answered 400 NegativeNumber, and
\* ERROR_COUNT changes by that one increment only.
C8_NegativeRejected ==
  /\ \A r \in ReqIds :
       ( /\ HasNumber(r)
         /\ JsonNumber(req[r].body.val)
         /\ req[r].body.val.n < 0
         /\ pc[r] # "view" ) =>
         /\ resp[r] = Resp(400, "error", JNull, "Negative numbers are not allowed")
         /\ label[r] = "NegativeNumber"
  /\ \A k \in ErrKeys :
       ERROR_COUNT[k] =
         Cardinality({r \in ReqIds : pc[r] \in Responded /\ <<req[r].path, label[r]>> = k})

\* C8 witness: a negative float has been rejected and counted.
C8_Witness ==
  \E r \in Done :
    /\ HasNumber(r)
    /\ req[r].body.val = JFloat(-1)
    /\ ERROR_COUNT[<<"/compute", "NegativeNumber">>] >= 1

\* C9: /data checks in the order field (400), containment (403), regular
\* file (404), read (500); the first failing check decides status and label.
C9_CheckOrder ==
  \A r \in ReqIds :
    (Entered(r, "/data") /\ req[r].body.k = "dict" /\ pc[r] \in Responded) =>
      IF "file_path" \notin req[r].body.keys
      THEN resp[r].status = 400 /\ label[r] = "InvalidInput"
      ELSE IF req[r].body.val.t # "str" THEN TRUE
      ELSE IF ~ Inside(Normalised(r))
      THEN resp[r].status = 403 /\ label[r] = "UnauthorizedAccess"
      ELSE IF Normalised(r) \notin DOMAIN InitFs \/ InitFs[Normalised(r)].kind # "file"
      THEN resp[r].status = 404 /\ label[r] = "FileNotFound"
      ELSE resp[r].status \in {200, 404, 500}

\* C10: counters never decrease, and per path the latency observations exceed
\* the counted requests by at most the requests inside record_metrics.
C10_Consistent ==
  /\ [](LET inside == Cardinality(InRecord) IN
        \A p \in Paths :
          LET ahead == REQUEST_LATENCY[p] - SumPath(p) IN
          /\ ahead >= 0
          /\ ahead <= inside
          /\ InFlight = {} => ahead = 0)
  /\ [][ /\ ERROR_COUNT' # ERROR_COUNT =>
              \A k \in ErrKeys : ERROR_COUNT'[k] >= ERROR_COUNT[k]
         /\ REQUEST_COUNT' # REQUEST_COUNT =>
              \A k \in CountKeys : REQUEST_COUNT'[k] >= REQUEST_COUNT[k]
         /\ REQUEST_LATENCY' # REQUEST_LATENCY =>
              \A p \in Paths : REQUEST_LATENCY'[p] >= REQUEST_LATENCY[p] ]_vars

\* C10 witness: one request of a path is done and another is between its
\* latency observation and its REQUEST_COUNT increment.
C10_Witness ==
  \E p \in Paths :
    /\ REQUEST_LATENCY[p] = 2
    /\ SumPath(p) = 1
    /\ \E r \in ReqIds : pc[r] = "cnt_wr" /\ req[r].path = p

====
